---------------------------- MODULE Spec2Model ----------------------------
(***************************************************************************)
(* A model of the morphing Christmas-tree scene: the point-cloud families  *)
(* (Foliage, SpiralGarland) whose shader uniform uProgress is driven by    *)
(* easing.damp, the rigid-instance families (TopStar, GiftBoxGroup,        *)
(* TinyBaublesGroup, OrnamentGroup) whose currentPos is lerped on the host,*)
(* the gift-box rejection placement, and the vertex-shader blend.          *)
(*                                                                         *)
(* Numbers are fixed point.  Progress: PScale = 1.0.  Time: milliseconds.  *)
(* Velocity: progress units per second.  Lengths: LScale = 1.0.            *)
(***************************************************************************)
EXTENDS Integers, Naturals, Sequences, FiniteSets, TLC

\* the fixed-point unit: 1.0 of a length, a factor or a second
MScale == 1000
\* progress 1.0
PScale == 10 * MScale

(* ---------------------------------------------------------------------- *)
(* Bounds of the model                                                     *)
(* ---------------------------------------------------------------------- *)
MaxFrames == 4

\* frame deltas offered by the host, in milliseconds (0, a 60 Hz frame,
\* slower frames, a long stall)
Deltas == {0, 15, 150, 600, 3000}

(* ---------------------------------------------------------------------- *)
(* Arithmetic helpers                                                      *)
(* ---------------------------------------------------------------------- *)
Abs(a) == IF a < 0 THEN -a ELSE a

\* division rounded to nearest, symmetric about zero (b > 0)
RDivPos(a, b) == IF 2 * (a % b) >= b THEN (a \div b) + 1 ELSE a \div b
RDiv(a, b) == IF a >= 0 THEN RDivPos(a, b) ELSE -RDivPos(-a, b)

Clamp(x, lo, hi) == IF x < lo THEN lo ELSE IF x > hi THEN hi ELSE x

(* ---------------------------------------------------------------------- *)
(* types.ts                                                                *)
(* ---------------------------------------------------------------------- *)
TreeState == {"SCATTERED", "TREE_SHAPE"}

(* ---------------------------------------------------------------------- *)
(* easing.damp(current, 'value', target, smoothTime, delta)                *)
(*                                                                         *)
(* The progress controller of both point-cloud families is the library     *)
(* routine easing.damp of the package maath, called once per frame.  It is *)
(* a SmoothDamp: it keeps a velocity next to the value                     *)
(* (current.__damp.velocity_value), snaps to the target inside eps = 0.001,*)
(* replaces exp(-x) by 1 / (1 + x + 0.48 x^2 + 0.235 x^3) with             *)
(* x = omega * delta, omega = 2 / smoothTime, and clamps an overshoot.     *)
(* ---------------------------------------------------------------------- *)
\* end-of-animation precision eps = 0.001
DampEps == 10

\* x = omega * delta = 2 * delta / smoothTime, scaled by MScale
DampX(smoothTime, delta) == RDiv(2 * MScale * delta, smoothTime)

\* 1 + x + 0.48 x^2 + 0.235 x^3, scaled by MScale  (the reciprocal of t)
DampDen(xm) ==
  LET sq == xm * xm
      cube == RDiv((sq \div MScale) * xm, MScale)
  IN  MScale + xm + RDiv(sq * 12, 25 * MScale) + RDiv(235 * cube, MScale)

\* the smoothing step proper: the new velocity and the output before the
\* overshoot test
DampStep(cur, target, smoothTime, delta) ==
  LET xm     == DampX(smoothTime, delta)
      den    == DampDen(xm)
      change == cur.value - target
      \* omega * change, in progress units per second
      oc     == RDiv(2 * MScale * change, smoothTime)
      \* temp = (velocity + omega * change) * delta
      temp   == RDiv(cur.velocity * delta, MScale) + RDiv(xm * change, MScale)
      \* velocity = (velocity - omega * temp) * t
      vnum   == cur.velocity - RDiv(xm * cur.velocity, MScale) - RDiv(xm * oc, MScale)
  IN  [value    |-> target + RDiv((change + temp) * MScale, den),
       velocity |-> RDiv(vnum * MScale, den)]

\* "Prevent overshooting": originalTo - current > 0.0 === output > originalTo
OvershootsNever(value, target, output) == FALSE

OvershootsUpwardOnly(value, target, output) == output > target

Overshoots(value, target, output) == (target - value > 0) = (output > target)

Damp(cur, target, smoothTime, delta) ==
  IF Abs(cur.value - target) <= DampEps
  THEN [value |-> target, velocity |-> cur.velocity]
  ELSE
    LET step == DampStep(cur, target, smoothTime, delta)
    IN  \* on an overshoot output = originalTo and
        \* velocity = (output - originalTo) / delta = 0.  With delta = 0 the
        \* output is cur.value and the test is false, so 0 / 0 is never
        \* computed.
        IF Overshoots(cur.value, target, step.value)
        THEN [value |-> target, velocity |-> 0]
        ELSE step

(* ---------------------------------------------------------------------- *)
(* Vectors and trigonometry                                                *)
(* ---------------------------------------------------------------------- *)
LScale == MScale

\* Math.sin of an angle in milliradians, scaled by MScale.  The angle is
\* reduced to [0, 2 pi) and the half wave is evaluated with Bhaskara's
\* rational approximation 16 a (pi - a) / (5 pi^2 - 4 a (pi - a)).
Pi == 3142
TwoPi == 6283

SinHalf(a) ==
  LET q == a * (Pi - a)
  IN  RDiv(16 * q, (5 * Pi * Pi - 4 * q) \div MScale)

Sin(angle) ==
  LET a == angle % TwoPi
  IN  IF a <= Pi THEN SinHalf(a) ELSE -SinHalf(a - Pi)

RECURSIVE Gcd(_, _)
Gcd(a, b) == IF b = 0 THEN a ELSE Gcd(b, a % b)

\* a lerp factor is kept as a fraction num / den in lowest terms (den > 0)
Factor(num, den) ==
  LET g == Gcd(Abs(num), den)
  IN  [num |-> num \div g, den |-> den \div g]

\* THREE.MathUtils.clamp(num / den, 0, 1)
ClampFactor(num, den) ==
  IF num < 0 THEN Factor(0, den) ELSE IF num > den THEN Factor(den, den) ELSE Factor(num, den)

\* THREE.Vector3.lerp: this.x += (v.x - this.x) * alpha, for x, y and z
VLerp(cur, target, alpha) ==
  [k \in 1..3 |-> cur[k] + RDiv((target[k] - cur[k]) * alpha.num, alpha.den)]

\* amplitude 0.005 of the idle bob
BobMax == 5

\* Math.sin(state.clock.elapsedTime + i) * 0.005, i the index in data.forEach
IdleBob(elapsed, i) == RDiv(Sin(elapsed + MScale * i) * BobMax, MScale)

AddY(p, dy) == <<p[1], p[2] + dy, p[3]>>

(* ---------------------------------------------------------------------- *)
(* Rigid-instance families                                                 *)
(* ---------------------------------------------------------------------- *)
\* TopStar.useFrame: currentPos.lerp(target, delta * 1.5), not clamped
StarLerpFactor(delta) == Factor(3 * delta, 2 * MScale)

StarFrame(s, ts, delta, elapsed) ==
  LET target == IF ts = "TREE_SHAPE" THEN s.treePos ELSE s.scatterPos
      pos    == VLerp(s.currentPos, target, StarLerpFactor(delta))
  IN  [s EXCEPT
        !.currentPos = pos,
        !.position = pos,
        !.rotation = IF ts = "TREE_SHAPE"
                     THEN <<0, s.rotation[2] + 2 * delta, 0>>
                     ELSE <<s.rotation[1], s.rotation[2] + 10 * delta, s.rotation[3] + 10 * delta>>,
        !.scale = LScale + RDiv(Sin(2 * elapsed) * 50, MScale)]

\* GiftBoxGroup.useFrame: lerpFactor = clamp(delta * 1.2, 0, 1)
GiftLerpFactor(delta) == ClampFactor(6 * delta, 5 * MScale)

\* the body of data.forEach((d, i) => ...) in GiftBoxGroup.useFrame
GiftBoxAliased(d, i, ts, delta, elapsed) ==
  LET targetIsTree == ts = "TREE_SHAPE"
      target == IF targetIsTree THEN d.treePos ELSE d.scatterPos
      pos    == VLerp(d.currentPos, target, GiftLerpFactor(delta))
  IN  IF ~targetIsTree
      THEN [d EXCEPT !.currentPos = AddY(pos, IdleBob(elapsed, i)),
                     !.scatterPos = AddY(pos, IdleBob(elapsed, i)),
                     !.rotation = <<d.rotation[1] + d.rotationSpeed,
                                    d.rotation[2] + d.rotationSpeed, d.rotation[3]>>]
      ELSE [d EXCEPT !.currentPos = pos,
                     !.scatterPos = pos,
                     !.rotation = <<d.rotation[1],
                                    d.rotation[2] + RDiv(d.rotationSpeed, 10), d.rotation[3]>>]

GiftBoxFrame(d, i, ts, delta, elapsed) ==
  LET targetIsTree == ts = "TREE_SHAPE"
      target == IF targetIsTree THEN d.treePos ELSE d.scatterPos
      pos    == VLerp(d.currentPos, target, GiftLerpFactor(delta))
  IN  IF ~targetIsTree
      THEN [d EXCEPT !.currentPos = AddY(pos, IdleBob(elapsed, i)),
                     !.rotation = <<d.rotation[1] + d.rotationSpeed,
                                    d.rotation[2] + d.rotationSpeed, d.rotation[3]>>]
      ELSE [d EXCEPT !.currentPos = pos,
                     !.rotation = <<d.rotation[1],
                                    d.rotation[2] + RDiv(d.rotationSpeed, 10), d.rotation[3]>>]

\* TinyBaublesGroup.useFrame: lerpFactor = clamp(delta * 1.5, 0, 1)
BaubleLerpFactor(delta) == ClampFactor(3 * delta, 2 * MScale)

TinyBaubleFrameStale(d, i, ts, delta, elapsed) ==
  LET pos == VLerp(d.currentPos, d.treePos, BaubleLerpFactor(delta))
  IN  [d EXCEPT !.currentPos = pos]

TinyBaubleFrame(d, i, ts, delta, elapsed) ==
  LET targetIsTree == ts = "TREE_SHAPE"
      target == IF targetIsTree THEN d.treePos ELSE d.scatterPos
      pos    == VLerp(d.currentPos, target, BaubleLerpFactor(delta))
  IN  [d EXCEPT !.currentPos = IF ~targetIsTree THEN AddY(pos, IdleBob(elapsed, i)) ELSE pos]

\* OrnamentGroup.useFrame: lerpFactor = clamp(delta * (2.0 / (weight + 0.5)), 0, 1)
\* (weight scaled by MScale)
\* the divisor (weight + 0.5)
LagDivisorNoOffset(weight) == weight

LagDivisor(weight) == weight + 500

\* the factor with the weight term as a multiplier: delta * 2.0 * (weight + 0.5)
OrnamentLerpFactorTimesWeight(weight, delta) ==
  ClampFactor(2 * delta * LagDivisor(weight), MScale * MScale)

OrnamentLerpFactor(weight, delta) == ClampFactor(2 * delta, LagDivisor(weight))

\* the forEach body with the idle bob outside its if (!targetIsTree)
OrnamentFrameAlwaysBobs(d, i, weight, ts, delta, elapsed) ==
  LET targetIsTree == ts = "TREE_SHAPE"
      target == IF targetIsTree THEN d.treePos ELSE d.scatterPos
      pos    == VLerp(d.currentPos, target, OrnamentLerpFactor(weight, delta))
  IN  [d EXCEPT !.currentPos = AddY(pos, IdleBob(elapsed, i)),
                !.rotation = <<d.rotation[1] + d.rotationSpeed,
                               d.rotation[2] + d.rotationSpeed, d.rotation[3]>>]

OrnamentFrame(d, i, weight, ts, delta, elapsed) ==
  LET targetIsTree == ts = "TREE_SHAPE"
      target == IF targetIsTree THEN d.treePos ELSE d.scatterPos
      pos    == VLerp(d.currentPos, target, OrnamentLerpFactor(weight, delta))
  IN  [d EXCEPT !.currentPos = IF ~targetIsTree THEN AddY(pos, IdleBob(elapsed, i)) ELSE pos,
                !.rotation = <<d.rotation[1] + d.rotationSpeed,
                               d.rotation[2] + d.rotationSpeed, d.rotation[3]>>]

\* the OrnamentGroup instances mounted by Ornaments, by their weight prop
OrnamentGroups == {"gold", "red", "diamond"}
Weight(g) == IF g = "gold" THEN 200 ELSE IF g = "red" THEN 300 ELSE 150

(* ---------------------------------------------------------------------- *)
(* Point-cloud families: Foliage and SpiralGarland                         *)
(* ---------------------------------------------------------------------- *)
PointFamilies == {"foliage", "garland"}

\* smoothTime passed to easing.damp, in milliseconds
SmoothTime(f) == IF f = "foliage" THEN 1500 ELSE 1200

\* targetProgress = treeState === TreeState.TREE_SHAPE ? 1.0 : 0.0
TargetProgress(ts) == IF ts = "TREE_SHAPE" THEN PScale ELSE 0

\* Foliage.useFrame: easing.damp(uProgress, 'value', targetProgress, 1.5, delta)
FoliageFrameUnclampedLerp(u, ts, delta) ==
  [value    |-> u.value + RDiv((TargetProgress(ts) - u.value) * 3 * delta, 2 * MScale),
   velocity |-> 0]

FoliageFrameDefaultDelta(u, ts, delta) == Damp(u, TargetProgress(ts), 1500, 10)

FoliageFrame(u, ts, delta) == Damp(u, TargetProgress(ts), 1500, delta)

\* SpiralGarland.useFrame: easing.damp(uProgress, 'value', targetProgress, 1.2, delta)
GarlandFrame(u, ts, delta) == Damp(u, TargetProgress(ts), 1200, delta)

(* ---------------------------------------------------------------------- *)
(* The registries as built by the components' useMemo                      *)
(* ---------------------------------------------------------------------- *)
\* items.push({...}) of GiftBoxGroup.data; currentPos is sPos.clone()
MkGiftBox(tPos, sPos, scale, rot, rotationSpeed, color, ribbonColor) ==
  [treePos |-> tPos, scatterPos |-> sPos, currentPos |-> sPos,
   scale |-> <<scale, scale, scale>>, rotation |-> rot,
   rotationSpeed |-> rotationSpeed, color |-> color, ribbonColor |-> ribbonColor]

\* the record with currentPos: tPos.clone()
MkOrnamentAtTree(tPos, sPos, scale, rot, rotationSpeed) ==
  [treePos |-> tPos, scatterPos |-> sPos, currentPos |-> tPos,
   scale |-> <<scale, scale, scale>>, rotation |-> rot, rotationSpeed |-> rotationSpeed]

\* the record returned by the map callback of OrnamentGroup.data
MkOrnament(tPos, sPos, scale, rot, rotationSpeed) ==
  [treePos |-> tPos, scatterPos |-> sPos, currentPos |-> sPos,
   scale |-> <<scale, scale, scale>>, rotation |-> rot, rotationSpeed |-> rotationSpeed]

\* the record returned by the map callback of TinyBaublesGroup.data
MkTinyBauble(tPos, sPos, rot, color) ==
  [treePos |-> tPos, scatterPos |-> sPos, currentPos |-> sPos,
   scale |-> <<500, 500, 500>>, rotation |-> rot, color |-> color]

\* TopStar: treePos, scatterPos, currentPos = scatterPos.clone(), and the mesh
MkTopStar(sPos) ==
  [treePos |-> <<0, 5600, 0>>, scatterPos |-> sPos, currentPos |-> sPos,
   position |-> <<0, 0, 0>>, rotation |-> <<0, 0, 0>>, scale |-> LScale]

\* scatter points drawn for the second gift box: one far from the first
\* box, one placed by the fallback next to it
SecondBoxScatter == { <<-5000, 8000, 1000>>, <<9500, -3000, 4000>> }

(* ---------------------------------------------------------------------- *)
(* GiftBoxGroup.data: rejection placement of the scatter points            *)
(* ---------------------------------------------------------------------- *)
\* const minDistance = 2.0
MinDistance == 2000
\* while (!validPosition && attempts < 50)
MaxAttempts == 50

\* a.distanceTo(b) < m, on squares; a coordinate that differs by m or more
\* settles it
DistanceLess(a, b, m) ==
  /\ \A k \in 1..3 : Abs(a[k] - b[k]) < m
  /\ (a[1] - b[1]) * (a[1] - b[1]) + (a[2] - b[2]) * (a[2] - b[2])
       + (a[3] - b[3]) * (a[3] - b[3]) < m * m

\* the for (const existingItem of items) loop: no placed point is closer
\* than minDistance
ValidPosition(sPos, items) ==
  \A j \in 1..Len(items) : ~DistanceLess(sPos, items[j].scatterPos, MinDistance)

\* boxPalette with its weights (scaled by MScale) and the ribbon colour the
\* if-chain gives each entry
BoxPalette ==
  << [color |-> "#7a1f1f", name |-> "burgundy", weight |-> 310],
     [color |-> "#f2e8d5", name |-> "cream",    weight |-> 310],
     [color |-> "#0f3b26", name |-> "emerald",  weight |-> 320],
     [color |-> "#d4af37", name |-> "gold",     weight |-> 60] >>

RECURSIVE PickFrom(_, _, _)
PickFrom(r, k, sum) ==
  IF k > Len(BoxPalette) THEN BoxPalette[1]
  ELSE IF r <= sum + BoxPalette[k].weight THEN BoxPalette[k]
  ELSE PickFrom(r, k + 1, sum + BoxPalette[k].weight)

\* pickColor comparing r with each entry's own weight (sum = p.weight)
PickColorOwnWeight(r) ==
  IF \E k \in 1..Len(BoxPalette) : r <= BoxPalette[k].weight
  THEN BoxPalette[CHOOSE k \in 1..Len(BoxPalette) :
                    /\ r <= BoxPalette[k].weight
                    /\ \A j \in 1..(k - 1) : r > BoxPalette[j].weight]
  ELSE BoxPalette[1]

\* pickColor, for the draw r = Math.random()
PickColor(r) == PickFrom(r, 1, 0)

RibbonColor(name) ==
  IF name \in {"burgundy", "emerald"} THEN "#d4af37"
  ELSE IF name \in {"gold", "cream"} THEN "#7a1f1f"
  ELSE "#8b0000"

\* what the ambient random source can return: candidate points of
\* getRandomSpherePoint(18) and of the fallback getRandomSpherePoint(22), and
\* the draws r = Math.random() of pickColor
SpreadSource ==
  [sphere18 |-> { <<9000, -3000, 4000>>, <<9500, -3000, 4000>>, <<-5000, 8000, 1000>> },
   sphere22 |-> { <<9500, -3000, 4500>>, <<0, 21000, 0>> },
   colorDraws |-> {310, 990}]
\* a source that keeps returning the same values
StuckSource ==
  [sphere18 |-> { <<9000, -3000, 4000>> }, sphere22 |-> { <<9000, -3000, 4000>> },
   colorDraws |-> {310}]

\* a source whose draws of pickColor fall on both sides of every cumulative
\* weight of the palette, with the ends of [0,1)
PaletteSource ==
  [sphere18 |-> { <<9000, -3000, 4000>> }, sphere22 |-> { <<0, 21000, 0>> },
   colorDraws |-> {0, 310, 311, 620, 621, 940, 941, 999}]

\* largest count of the batches built with the spread source
MaxCount == 2
BuildConfigs ==
  {[count |-> n, source |-> SpreadSource] : n \in 0..MaxCount}
    \cup {[count |-> MaxAttempts + 1, source |-> StuckSource]}
    \cup {[count |-> 1, source |-> PaletteSource]}

IdleBuild ==
  [pc |-> "idle", count |-> 0, source |-> StuckSource, items |-> <<>>,
   attempts |-> 0, validPosition |-> FALSE, sPos |-> <<0, 0, 0>>,
   samplerCalls |-> 0, fallbacks |-> {}, draws |-> <<>>]

(* ---------------------------------------------------------------------- *)
(* The vertex shaders of Foliage and SpiralGarland                         *)
(* ---------------------------------------------------------------------- *)
RECURSIVE SqrtIter(_, _)
SqrtIter(n, x) ==
  LET y == (x + n \div x) \div 2
  IN  IF y >= x THEN x ELSE SqrtIter(n, y)

\* floor of the square root
ISqrt(n) == IF n = 0 THEN 0 ELSE SqrtIter(n, n)

\* length(v)
VLength(v) == ISqrt(v[1] * v[1] + v[2] * v[2] + v[3] * v[3])

Cos(angle) == Sin(angle + Pi \div 2)

\* the second branch without its / 2.0
EaseInOutCubicNoHalf(x) ==
  IF 2 * x < PScale
  THEN RDiv(RDiv(x * x, 100) * x, 250000)
  ELSE LET y == 2 * PScale - 2 * x
       IN  PScale - RDiv(RDiv(y * y, 1000) * y, 100000)

\* x < 0.5 ? 4.0 * x * x * x : 1.0 - pow(-2.0 * x + 2.0, 3.0) / 2.0
EaseInOutCubic(x) ==
  IF 2 * x < PScale
  THEN RDiv(RDiv(x * x, 100) * x, 250000)
  ELSE LET y == 2 * PScale - 2 * x
       IN  PScale - RDiv(RDiv(y * y, 1000) * y, 200000)

\* delayedT without the gain 1.2
FoliageDelayedTNoGain(progress, aRandom) ==
  Clamp(EaseInOutCubic(progress) - 2 * aRandom, 0, PScale)

\* clamp(t * 1.2 - (aRandom * 0.2), 0.0, 1.0)
FoliageDelayedT(progress, aRandom) ==
  Clamp(RDiv(EaseInOutCubic(progress) * 6, 5) - 2 * aRandom, 0, PScale)

\* clamp(t * 1.5 - (aRandom * 0.5), 0.0, 1.0)
GarlandDelayedTNoGain(progress, aRandom) ==
  Clamp(EaseInOutCubic(progress) - 5 * aRandom, 0, PScale)

GarlandDelayedTPhaseAdded(progress, aRandom) ==
  Clamp(RDiv(EaseInOutCubic(progress) * 3, 2) + 5 * aRandom, 0, PScale)

GarlandDelayedT(progress, aRandom) ==
  Clamp(RDiv(EaseInOutCubic(progress) * 3, 2) - 5 * aRandom, 0, PScale)

\* mix(a, b, t) = a * (1 - t) + b * t
Mix(a, b, t) == [k \in 1..3 |-> RDiv(a[k] * (PScale - t) + b[k] * t, PScale)]

\* pos += normalize(pos) * breath * (0.5 + 0.5 * uProgress), with
\* breath = sin(uTime * 1.5 + aRandom * 10.0) * 0.03.  normalize of the zero
\* vector is undefined in GLSL; the inputs of the model keep pos away from it.
Breathe(pos, progress, time, aRandom) ==
  LET breath == RDiv(Sin(RDiv(3 * time, 2) + 10 * aRandom) * 30, MScale)
      amount == RDiv(breath * (PScale + progress), 2 * PScale)
      len    == VLength(pos)
  IN  IF len = 0 THEN pos ELSE [k \in 1..3 |-> pos[k] + RDiv(pos[k] * amount, len)]

\* if (uProgress < 0.9) { pos.x += sin(uTime * 0.5 + pos.y) * 0.2 * (1.0 - uProgress);
\*                        pos.y += cos(uTime * 0.3 + pos.x) * 0.2 * (1.0 - uProgress); }
FoliageSway(pos, progress, time) ==
  IF progress < 9 * MScale
  THEN LET x == pos[1] + RDiv(RDiv(Sin(time \div 2 + pos[2]) * 200, MScale)
                                * (PScale - progress), PScale)
           y == pos[2] + RDiv(RDiv(Cos(RDiv(3 * time, 10) + x) * 200, MScale)
                                * (PScale - progress), PScale)
       IN  <<x, y, pos[3]>>
  ELSE pos

\* if (uProgress < 0.95) pos.y += sin(uTime + aRandom * 10.0) * 0.1 * (1.0 - uProgress)
GarlandSway(pos, progress, time, aRandom) ==
  IF 2 * progress < 19 * MScale
  THEN AddY(pos, RDiv(RDiv(Sin(time + 10 * aRandom) * 100, MScale)
                        * (PScale - progress), PScale))
  ELSE pos

\* vertexShader.main of Foliage: pos before the model-view projection
FoliageVertex(in) ==
  LET pos == Mix(in.aScatterPos, in.aTreePos, FoliageDelayedT(in.uProgress, in.aRandom))
  IN  FoliageSway(Breathe(pos, in.uProgress, in.uTime, in.aRandom), in.uProgress, in.uTime)

\* spiralVertexShader.main of SpiralGarland
GarlandVertex(in) ==
  LET pos == Mix(in.aScatterPos, in.aTreePos, GarlandDelayedT(in.uProgress, in.aRandom))
  IN  GarlandSway(pos, in.uProgress, in.uTime, in.aRandom)

\* the uniforms and attributes a vertex is run with
ShaderProgress == {0, 2500, 5000, 8900, 9000, 9400, 9500, 10000}
ShaderTimes == {0, 700, 2000}
ShaderRandoms == {0, 450, 999}
ShaderPoints ==
  { [aScatterPos |-> <<9000, -3000, 4000>>, aTreePos |-> <<1500, -4000, 2000>>],
    [aScatterPos |-> <<-5000, 8000, 1000>>, aTreePos |-> <<0, 4900, -100>>] }

\* Math.pow(r, 3.0)
FoliageBiasCubed(r) == RDiv(RDiv(r * r, PScale) * r, PScale)

\* const bias = Math.pow(r, 6.0), r and bias in units of 0.0001
FoliageBias(r) ==
  LET r3 == RDiv(RDiv(r * r, PScale) * r, PScale)
  IN  RDiv(r3 * r3, PScale)

\* the y of getWeightedFoliagePoint(height, baseRadius, yOffset) for the draw
\* r: yOffset - (height / 2) + (bias * height)
FoliagePointY(height, yOffset, r) ==
  yOffset - height \div 2 + RDiv(FoliageBias(r) * height, PScale)

\* getWeightedFoliagePoint(12, 4.5, -1) as Foliage calls it
FoliageHeight == 12000
FoliageYOffset == -1000

\* the number of equally spaced draws r = k / Draws that stand for the
\* uniform distribution of Math.random() on [0,1)
Draws == 200
UniformDraw(k) == RDiv(k * PScale, Draws)

\* the progress values and phases the blend is evaluated at
BlendProgress ==
  {0, 1000, 2500, 4000, 4900, 4999, 5000, 5001, 5100, 6000, 7500, 9000, 9500, 10000}
BlendPhases == {0, 250, 500, 999}

IdleVertex ==
  [pc |-> "idle", family |-> "foliage", uProgress |-> 0, uTime |-> 0, aRandom |-> 0,
   aScatterPos |-> <<0, 0, 0>>, aTreePos |-> <<0, 0, 0>>, pos |-> <<0, 0, 0>>]

(* ---------------------------------------------------------------------- *)
(* The shared tempObject and the instance matrices                         *)
(* ---------------------------------------------------------------------- *)
\* const tempObject = new THREE.Object3D()
NewObject3D ==
  [position |-> <<0, 0, 0>>, rotation |-> <<0, 0, 0>>, scale |-> <<LScale, LScale, LScale>>]

\* a full turn in the unit of the rotations (0.0001 rad)
FullTurn == 10 * TwoPi

\* tempObject.updateMatrix(); mesh.setMatrixAt(i, tempObject.matrix): the
\* matrix composed from position, rotation and scale; angles that differ by
\* a full turn compose to the same matrix
Matrix(obj) ==
  [position |-> obj.position,
   rotation |-> [k \in 1..3 |-> obj.rotation[k] % FullTurn],
   scale |-> obj.scale]

\* position.copy, rotation.copy and scale.copy on tempObject
CopyAll(obj, d, pos) == [position |-> pos, rotation |-> d.rotation, scale |-> d.scale]
\* position.copy and scale.copy only
CopyPositionScale(obj, d, pos) == [obj EXCEPT !.position = pos, !.scale = d.scale]
\* position.copy only
CopyPosition(obj, d, pos) == [obj EXCEPT !.position = pos]

\* what a family's useLayoutEffect writes to tempObject for element d
LayoutWrite(fam, obj, d) ==
  IF fam \in {"gift", "ribbonH"} THEN CopyPosition(obj, d, d.scatterPos)
  ELSE IF fam = "bauble" THEN CopyPositionScale(obj, d, d.scatterPos)
  ELSE CopyAll(obj, d, d.scatterPos)

\* what a family's useFrame writes to tempObject for element d
FrameWrite(fam, obj, d) ==
  IF fam = "bauble" THEN CopyPositionScale(obj, d, d.currentPos)
  ELSE CopyAll(obj, d, d.currentPos)

\* the components that use tempObject, in the order Ornaments mounts them
\* (a child's effects and useFrame subscription come before its parent's)
CallbackOrder == <<"bauble", "gold", "red", "diamond", "ribbonH", "gift">>

MaxSinkFrames == 2
SinkDeltas == {0, 150, 600}

(* ---------------------------------------------------------------------- *)
(* A family mounted with given props                                       *)
(* ---------------------------------------------------------------------- *)
\* getRandomSpherePoint(radius) for one triple of draws: the unit direction
\* (sin phi cos theta, sin phi sin theta, cos phi) and Math.cbrt(Math.random())
GetRandomSpherePoint(radius, draw) ==
  LET r == RDiv(draw.cbrt * radius, MScale)
  IN  [k \in 1..3 |-> RDiv(r * draw.dir[k], MScale)]

SphereDraws ==
  { [dir |-> <<600, 0, 800>>, cbrt |-> 1000], [dir |-> <<0, -1000, 0>>, cbrt |-> 500] }

\* Array.from({ length: count }): ToLength takes a negative length to 0
ArrayLength(count) == IF count < 0 THEN 0 ELSE count

\* new Float32Array(count * 3) throws a RangeError for a negative length
TypedArrayThrows(count) == count * 3 < 0

\* the radius the component passes to getRandomSpherePoint
ScatterRadius(kind) == IF kind = "ornament" THEN 20000 ELSE 18000

\* OrnamentGroup.data for the given props and draws
OrnamentData(count, radius, draws) ==
  [i \in 1..ArrayLength(count) |->
     MkOrnament(<<-1500, 1000, 2000>>, GetRandomSpherePoint(radius, draws[i]), 720,
                <<20000, 4000, 0>>, 80)]

\* the attribute arrays of Foliage's useMemo, element by element
FoliageData(count, radius, draws) ==
  [i \in 1..count |->
     [aTreePos |-> <<1500, -4000, 2000>>,
      aScatterPos |-> GetRandomSpherePoint(radius, draws[i]),
      position |-> GetRandomSpherePoint(radius, draws[i])]]

\* largest count a family is mounted with, and the frames it is run for
MaxFamilyCount == 1
MaxFamilyFrames == 2

FamilyKinds == {"ornament", "foliage"}
FamilyCounts == (-1)..MaxFamilyCount
\* weight props: the documented range 0.1 to 1.0, the values Ornaments
\* passes, and 0
FamilyWeights == {0, 100, 150, 200, 300, 1000}

VARIABLES
  treeState,   \* App's React state
  uProgress,   \* [family -> [value, velocity]] : uniforms.uProgress and its __damp
  uTime,       \* state.clock.elapsedTime, milliseconds
  star,        \* TopStar
  giftData,    \* GiftBoxGroup.data
  baubleData,  \* TinyBaublesGroup.data
  ornamentData,\* [group -> OrnamentGroup.data]
  frames,      \* number of frames rendered so far
  log,         \* the inputs and the before-state of the last two frames
  build,       \* the locals of GiftBoxGroup's useMemo while it builds data
  vertex,      \* one run of a vertex shader: its uniforms, attributes and pos
  family,      \* one family mounted with given props: its data and its frames
  sink,        \* the module-level tempObject and the matrices set from it
  blend,       \* two evaluations of the phase-staggered blend
  sample       \* a run of draws through getWeightedFoliagePoint

vars == <<treeState, uProgress, uTime, star, giftData, baubleData, ornamentData, frames, log,
          build, vertex, family, sink, blend, sample>>

\* the variables of the runs that are looked at on their own
runVars == <<family, sink, blend, sample>>

NoRuns ==
  /\ family = [pc |-> "idle"]
  /\ sink = [pc |-> "idle"]
  /\ blend = [pc |-> "idle"]
  /\ sample = [pc |-> "idle"]

\* the scene as the components' useMemo calls leave it on mount
MountedScene ==
  /\ treeState = "SCATTERED"
  /\ uProgress = [f \in PointFamilies |-> [value |-> 0, velocity |-> 0]]
  /\ uTime = 0
  /\ star = MkTopStar(<<3000, -4000, 12000>>)
  /\ \E s2 \in SecondBoxScatter :
       giftData = << MkGiftBox(<<1200, -6500, -900>>, <<9000, -3000, 4000>>, 800,
                               <<10000, 20000, 0>>, 60, "#7a1f1f", "#d4af37"),
                     MkGiftBox(<<-2000, -6000, 1500>>, s2, 700,
                               <<5000, 30000, 0>>, -100, "#f2e8d5", "#7a1f1f") >>
  /\ baubleData = << MkTinyBauble(<<2500, -3000, 1000>>, <<-12000, 5000, 9000>>,
                                  <<7000, 1000, 0>>, "#f0f0f0") >>
  /\ ornamentData = [g \in OrnamentGroups |->
       << MkOrnament(<<-1500, 1000, 2000>>, <<4000, 15000, -8000>>,
                     IF g = "gold" THEN 720 ELSE IF g = "red" THEN 900 ELSE 640,
                     <<20000, 4000, 0>>, 80) >>]
  /\ frames = 0
  /\ log = <<>>

Init ==
  /\ MountedScene
  /\ build = IdleBuild
  /\ vertex = IdleVertex
  /\ NoRuns

\* App.toggleState
toggleState ==
  /\ treeState' = IF treeState = "TREE_SHAPE" THEN "SCATTERED" ELSE "TREE_SHAPE"
  /\ UNCHANGED <<uProgress, uTime, star, giftData, baubleData, ornamentData, frames, log, build,
               vertex, runVars>>

\* one rendered frame: every useFrame callback runs with the same delta and
\* the same state.clock.elapsedTime
Frame(delta) ==
  LET elapsed == uTime + delta
  IN
  /\ frames < MaxFrames
  /\ frames' = frames + 1
  /\ uTime' = elapsed
  /\ uProgress' = [f \in PointFamilies |->
        IF f = "foliage" THEN FoliageFrame(uProgress[f], treeState, delta)
                         ELSE GarlandFrame(uProgress[f], treeState, delta)]
  /\ star' = StarFrame(star, treeState, delta, elapsed)
  /\ giftData' = [i \in 1..Len(giftData) |->
        GiftBoxFrame(giftData[i], i - 1, treeState, delta, elapsed)]
  /\ baubleData' = [i \in 1..Len(baubleData) |->
        TinyBaubleFrame(baubleData[i], i - 1, treeState, delta, elapsed)]
  /\ ornamentData' = [g \in OrnamentGroups |->
        [i \in 1..Len(ornamentData[g]) |->
           OrnamentFrame(ornamentData[g][i], i - 1, Weight(g), treeState, delta, elapsed)]]
  /\ log' = <<[treeState |-> treeState, delta |-> delta, uProgress |-> uProgress,
               star |-> star, giftData |-> giftData, baubleData |-> baubleData,
               ornamentData |-> ornamentData]>>
              \o (IF log = <<>> THEN <<>> ELSE <<log[1]>>)
  /\ UNCHANGED <<treeState, build, vertex, runVars>>

Next ==
  \/ toggleState
  \/ \E delta \in Deltas : Frame(delta)

Spec == Init /\ [][Next]_vars

(* ---------------------------------------------------------------------- *)
(* The construction of GiftBoxGroup.data, one sampler draw at a time       *)
(* ---------------------------------------------------------------------- *)
frameVars == <<treeState, uProgress, uTime, star, baubleData, ornamentData, frames, log,
               vertex, runVars>>

InitBuild ==
  /\ treeState = "SCATTERED"
  /\ uProgress = [f \in PointFamilies |-> [value |-> 0, velocity |-> 0]]
  /\ uTime = 0
  /\ star = MkTopStar(<<3000, -4000, 12000>>)
  /\ giftData = <<>>
  /\ baubleData = <<>>
  /\ ornamentData = [g \in OrnamentGroups |-> <<>>]
  /\ frames = 0
  /\ log = <<>>
  /\ vertex = IdleVertex
  /\ NoRuns
  /\ \E cfg \in BuildConfigs :
       build = [IdleBuild EXCEPT !.pc = "loop", !.count = cfg.count, !.source = cfg.source]

\* for (let i = 0; i < count; i++): the test that lets iteration i run
LoopRunsInclusive(i, count) == i <= count

LoopRuns(i, count) == i < count

\* the iteration without its attempts++
DrawCandidateUncounted ==
  /\ build.pc = "loop"
  /\ LoopRuns(Len(build.items), build.count)
  /\ ~build.validPosition /\ build.attempts < MaxAttempts
  /\ \E p \in build.source.sphere18 :
       build' = [build EXCEPT !.sPos = p,
                              !.validPosition = ValidPosition(p, build.items),
                              !.samplerCalls = build.samplerCalls + 1]
  /\ UNCHANGED <<frameVars, giftData>>

\* one iteration of while (!validPosition && attempts < 50)
DrawCandidate ==
  /\ build.pc = "loop"
  /\ LoopRuns(Len(build.items), build.count)
  /\ ~build.validPosition /\ build.attempts < MaxAttempts
  /\ \E p \in build.source.sphere18 :
       build' = [build EXCEPT !.sPos = p,
                              !.validPosition = ValidPosition(p, build.items),
                              !.attempts = build.attempts + 1,
                              !.samplerCalls = build.samplerCalls + 1]
  /\ UNCHANGED <<frameVars, giftData>>

\* the rest of the for body once the while loop has ended: the fallback draw
\* if no candidate was valid, the attributes and items.push
PushItem ==
  /\ build.pc = "loop"
  /\ LoopRuns(Len(build.items), build.count)
  /\ build.validPosition \/ build.attempts >= MaxAttempts
  /\ \E fb \in build.source.sphere22, r \in build.source.colorDraws :
       LET sPos    == IF ~build.validPosition THEN fb ELSE build.sPos
           choice  == PickColor(r)
           item    == MkGiftBox(<<1200, -6500, -900>>, sPos, 800, <<10000, 20000, 0>>, 60,
                                choice.color, RibbonColor(choice.name))
       IN  build' = [build EXCEPT
                       !.items = Append(build.items, item),
                       !.sPos = sPos,
                       !.draws = Append(build.draws, r),
                       !.attempts = 0,
                       !.validPosition = FALSE,
                       !.samplerCalls = IF ~build.validPosition
                                        THEN build.samplerCalls + 1 ELSE build.samplerCalls,
                       !.fallbacks = IF ~build.validPosition
                                     THEN build.fallbacks \cup {Len(build.items) + 1}
                                     ELSE build.fallbacks]
  /\ UNCHANGED <<frameVars, giftData>>

\* return items
ReturnItems ==
  /\ build.pc = "loop"
  /\ ~LoopRuns(Len(build.items), build.count)
  /\ build' = [build EXCEPT !.pc = "done"]
  /\ giftData' = build.items
  /\ UNCHANGED frameVars

\* frames the built family is run for
MaxBuiltFrames == 2
\* the deltas of those frames
BuiltDeltas == {0, 600}

\* GiftBoxGroup.useFrame on the data the build returned
BuiltFrame(delta) ==
  /\ build.pc = "done"
  /\ frames < MaxBuiltFrames
  /\ frames' = frames + 1
  /\ uTime' = uTime + delta
  /\ giftData' = [i \in 1..Len(giftData) |->
        GiftBoxFrame(giftData[i], i - 1, treeState, delta, uTime + delta)]
  /\ UNCHANGED <<treeState, uProgress, star, baubleData, ornamentData, log, build, vertex,
                 runVars>>

BuiltToggle ==
  /\ build.pc = "done"
  /\ frames < MaxBuiltFrames
  /\ toggleState

NextBuild ==
  \/ DrawCandidate
  \/ PushItem
  \/ ReturnItems
  \/ BuiltToggle
  \/ \E delta \in BuiltDeltas : BuiltFrame(delta)

SpecBuild == InitBuild /\ [][NextBuild]_vars

\* the loop is synchronous code: it keeps running until it returns
FairSpecBuild == SpecBuild /\ WF_vars(NextBuild)

(* ---------------------------------------------------------------------- *)
(* A family built from its props and run for some frames                   *)
(* ---------------------------------------------------------------------- *)
restVars == <<uProgress, uTime, star, giftData, baubleData, ornamentData, frames, log, build,
              vertex, sink, blend, sample>>

\* the scene variables while a run is looked at on its own
RestScene ==
  /\ treeState = "SCATTERED"
  /\ uProgress = [f \in PointFamilies |-> [value |-> 0, velocity |-> 0]]
  /\ uTime = 0
  /\ star = MkTopStar(<<3000, -4000, 12000>>)
  /\ giftData = <<>>
  /\ baubleData = <<>>
  /\ ornamentData = [g \in OrnamentGroups |-> <<>>]
  /\ frames = 0
  /\ log = <<>>
  /\ build = IdleBuild
  /\ vertex = IdleVertex

InitFamily ==
  /\ RestScene
  /\ sink = [pc |-> "idle"] /\ blend = [pc |-> "idle"] /\ sample = [pc |-> "idle"]
  /\ \E kind \in FamilyKinds, count \in FamilyCounts, sign \in {-1, 1}, w \in FamilyWeights :
       /\ kind = "foliage" => w = 0
       /\ family = [pc |-> "props", kind |-> kind, count |-> count,
                    radius |-> sign * ScatterRadius(kind), weight |-> w,
                    data |-> <<>>, frames |-> 0, elapsed |-> 0, delta |-> 0,
                    divisor |-> 0, lerpFactor |-> Factor(0, 1)]

\* the useMemo that builds the family's data on mount
BuildFamily ==
  /\ family.pc = "props"
  /\ IF family.kind = "foliage" /\ TypedArrayThrows(family.count)
     THEN family' = [family EXCEPT !.pc = "error"]
     ELSE \E draws \in [1..ArrayLength(family.count) -> SphereDraws] :
            family' = [family EXCEPT
              !.pc = "built",
              !.data = IF family.kind = "ornament"
                       THEN OrnamentData(family.count, family.radius, draws)
                       ELSE FoliageData(family.count, family.radius, draws)]
  /\ UNCHANGED <<treeState, restVars>>

\* OrnamentGroup.useFrame on the built family
FamilyFrame(delta) ==
  /\ family.pc = "built" /\ family.kind = "ornament"
  /\ family.frames < MaxFamilyFrames
  /\ LET elapsed == family.elapsed + delta
         div     == LagDivisor(family.weight)
     IN  IF div > 0
         THEN family' = [family EXCEPT
                !.frames = family.frames + 1, !.elapsed = elapsed, !.delta = delta,
                !.divisor = div,
                !.lerpFactor = OrnamentLerpFactor(family.weight, delta),
                !.data = [i \in 1..Len(family.data) |->
                   OrnamentFrame(family.data[i], i - 1, family.weight, treeState, delta,
                                 elapsed)]]
         \* 2.0 / 0 is Infinity: the factor is NaN for delta = 0
         ELSE family' = [family EXCEPT
                !.pc = "nonfinite", !.frames = family.frames + 1, !.delta = delta,
                !.divisor = div]
  /\ UNCHANGED <<treeState, restVars>>

FamilyToggle ==
  /\ family.pc = "built" /\ family.kind = "ornament"
  /\ family.frames < MaxFamilyFrames
  /\ toggleState

NextFamily ==
  \/ BuildFamily
  \/ FamilyToggle
  \/ \E delta \in Deltas : FamilyFrame(delta)

SpecFamily == InitFamily /\ [][NextFamily]_vars

(* ---------------------------------------------------------------------- *)
(* The phase-staggered blend at two progress values and two phases         *)
(* ---------------------------------------------------------------------- *)
DelayedT(f, progress, aRandom) ==
  IF f = "foliage" THEN FoliageDelayedT(progress, aRandom)
                   ELSE GarlandDelayedT(progress, aRandom)

InitBlend ==
  /\ RestScene
  /\ family = [pc |-> "idle"] /\ sink = [pc |-> "idle"] /\ sample = [pc |-> "idle"]
  /\ \E f \in PointFamilies, p \in BlendProgress, q \in BlendProgress,
        r1 \in BlendPhases, r2 \in BlendPhases :
       blend = [pc |-> "in", family |-> f, p |-> p, q |-> q, r1 |-> r1, r2 |-> r2,
                aScatterPos |-> <<9000, -3000, 4000>>, aTreePos |-> <<1500, -4000, 2000>>,
                tP |-> 0, tQ |-> 0, dP1 |-> 0, dQ1 |-> 0, dP2 |-> 0, pos |-> <<0, 0, 0>>]

\* the first three statements of main(): t, delayedT and mix, for progress p
\* and q with phase r1 and for progress p with phase r2
EvaluateBlend ==
  /\ blend.pc = "in"
  /\ blend' = [blend EXCEPT
       !.pc = "out",
       !.tP = EaseInOutCubic(blend.p),
       !.tQ = EaseInOutCubic(blend.q),
       !.dP1 = DelayedT(blend.family, blend.p, blend.r1),
       !.dQ1 = DelayedT(blend.family, blend.q, blend.r1),
       !.dP2 = DelayedT(blend.family, blend.p, blend.r2),
       !.pos = Mix(blend.aScatterPos, blend.aTreePos,
                   DelayedT(blend.family, blend.p, blend.r1))]
  /\ UNCHANGED <<treeState, uProgress, uTime, star, giftData, baubleData, ornamentData,
                 frames, log, build, vertex, family, sink, sample>>

NextBlend == EvaluateBlend

SpecBlend == InitBlend /\ [][NextBlend]_vars

(* ---------------------------------------------------------------------- *)
(* getWeightedFoliagePoint over the uniform draws                          *)
(* ---------------------------------------------------------------------- *)
InitSample ==
  /\ RestScene
  /\ family = [pc |-> "idle"] /\ sink = [pc |-> "idle"] /\ blend = [pc |-> "idle"]
  /\ sample = [pc |-> "drawing", k |-> 0, y |-> 0, inBottomHalf |-> 0]

\* one call of getWeightedFoliagePoint with the next draw
DrawFoliagePoint ==
  /\ sample.pc = "drawing" /\ sample.k < Draws
  /\ LET y == FoliagePointY(FoliageHeight, FoliageYOffset, UniformDraw(sample.k))
     IN  sample' = [sample EXCEPT
           !.k = sample.k + 1,
           !.y = y,
           !.inBottomHalf = IF y <= FoliageYOffset THEN sample.inBottomHalf + 1
                                                   ELSE sample.inBottomHalf]
  /\ UNCHANGED <<treeState, uProgress, uTime, star, giftData, baubleData, ornamentData,
                 frames, log, build, vertex, family, sink, blend>>

\* the for loop of Foliage's useMemo has used every draw
EndSample ==
  /\ sample.pc = "drawing" /\ sample.k = Draws
  /\ sample' = [sample EXCEPT !.pc = "done"]
  /\ UNCHANGED <<treeState, uProgress, uTime, star, giftData, baubleData, ornamentData,
                 frames, log, build, vertex, family, sink, blend>>

NextSample == DrawFoliagePoint \/ EndSample

SpecSample == InitSample /\ [][NextSample]_vars

(* ---------------------------------------------------------------------- *)
(* The frame callbacks one by one, writing through tempObject              *)
(* ---------------------------------------------------------------------- *)
\* the data a component iterates over
DataOf(fam) ==
  IF fam \in {"gift", "ribbonH"} THEN giftData
  ELSE IF fam = "bauble" THEN baubleData
  ELSE ornamentData[fam]

InitSink ==
  /\ MountedScene
  /\ build = IdleBuild
  /\ vertex = IdleVertex
  /\ family = [pc |-> "idle"] /\ blend = [pc |-> "idle"] /\ sample = [pc |-> "idle"]
  /\ sink = [pc |-> "layout", tempObject |-> NewObject3D, queue |-> CallbackOrder,
             matrices |-> [fam \in {CallbackOrder[j] : j \in 1..Len(CallbackOrder)} |-> <<>>],
             last |-> "none", delta |-> 0]

\* the next component's useLayoutEffect
LayoutEffect ==
  /\ sink.pc = "layout" /\ sink.queue # <<>>
  /\ LET fam  == Head(sink.queue)
         data == DataOf(fam)
     IN  sink' = [sink EXCEPT
           !.queue = Tail(sink.queue),
           !.pc = IF Tail(sink.queue) = <<>> THEN "frames" ELSE "layout",
           !.matrices[fam] = [i \in 1..Len(data) |->
                                Matrix(LayoutWrite(fam, sink.tempObject, data[i]))],
           !.tempObject = IF data = <<>> THEN sink.tempObject
                          ELSE LayoutWrite(fam, sink.tempObject, data[Len(data)])]
  /\ UNCHANGED <<treeState, uProgress, uTime, star, giftData, baubleData, ornamentData,
                 frames, log, build, vertex, family, blend, sample>>

\* the host starts a frame: every subscribed callback will run with delta
StartFrame(delta) ==
  /\ sink.pc = "frames" /\ sink.queue = <<>>
  /\ frames < MaxSinkFrames
  /\ frames' = frames + 1
  /\ uTime' = uTime + delta
  /\ sink' = [sink EXCEPT !.queue = CallbackOrder, !.delta = delta, !.last = "none"]
  /\ UNCHANGED <<treeState, uProgress, star, giftData, baubleData, ornamentData, log, build,
                 vertex, family, blend, sample>>

\* the next component's useFrame callback: data.forEach updates each element
\* and sets its matrix from tempObject
FrameCallback ==
  /\ sink.pc = "frames" /\ sink.queue # <<>>
  /\ LET fam  == Head(sink.queue)
         old  == DataOf(fam)
         new  == [i \in 1..Len(old) |->
                    IF fam = "gift"
                    THEN GiftBoxFrame(old[i], i - 1, treeState, sink.delta, uTime)
                    ELSE IF fam = "bauble"
                    THEN TinyBaubleFrame(old[i], i - 1, treeState, sink.delta, uTime)
                    ELSE IF fam = "ribbonH" THEN old[i]
                    ELSE OrnamentFrame(old[i], i - 1, Weight(fam), treeState, sink.delta,
                                       uTime)]
     IN  /\ giftData' = IF fam = "gift" THEN new ELSE giftData
         /\ baubleData' = IF fam = "bauble" THEN new ELSE baubleData
         /\ ornamentData' = IF fam \in OrnamentGroups
                            THEN [ornamentData EXCEPT ![fam] = new] ELSE ornamentData
         /\ sink' = [sink EXCEPT
               !.queue = Tail(sink.queue),
               !.last = fam,
               !.matrices[fam] = [i \in 1..Len(new) |->
                                    Matrix(FrameWrite(fam, sink.tempObject, new[i]))],
               !.tempObject = IF new = <<>> THEN sink.tempObject
                              ELSE FrameWrite(fam, sink.tempObject, new[Len(new)])]
  /\ UNCHANGED <<treeState, uProgress, uTime, star, frames, log, build, vertex, family,
                 blend, sample>>

\* a click between two frames
SinkToggle ==
  /\ sink.pc = "frames" /\ sink.queue = <<>>
  /\ frames < MaxSinkFrames
  /\ toggleState

NextSink ==
  \/ LayoutEffect
  \/ \E delta \in SinkDeltas : StartFrame(delta)
  \/ FrameCallback
  \/ SinkToggle

SpecSink == InitSink /\ [][NextSink]_vars

(* ---------------------------------------------------------------------- *)
(* One vertex through a vertex shader                                      *)
(* ---------------------------------------------------------------------- *)
sceneVars == <<treeState, uProgress, uTime, star, giftData, baubleData, ornamentData, frames,
               log, build, runVars>>

InitShader ==
  /\ treeState = "SCATTERED"
  /\ uProgress = [f \in PointFamilies |-> [value |-> 0, velocity |-> 0]]
  /\ uTime = 0
  /\ star = MkTopStar(<<3000, -4000, 12000>>)
  /\ giftData = <<>>
  /\ baubleData = <<>>
  /\ ornamentData = [g \in OrnamentGroups |-> <<>>]
  /\ frames = 0
  /\ log = <<>>
  /\ build = IdleBuild
  /\ NoRuns
  /\ \E f \in PointFamilies, p \in ShaderProgress, t \in ShaderTimes, r \in ShaderRandoms,
        pts \in ShaderPoints :
       vertex = [pc |-> "in", family |-> f, uProgress |-> p, uTime |-> t, aRandom |-> r,
                 aScatterPos |-> pts.aScatterPos, aTreePos |-> pts.aTreePos,
                 pos |-> <<0, 0, 0>>]

RunVertexShader ==
  /\ vertex.pc = "in"
  /\ vertex' = [vertex EXCEPT
       !.pc = "out",
       !.pos = IF vertex.family = "foliage" THEN FoliageVertex(vertex)
                                            ELSE GarlandVertex(vertex)]
  /\ UNCHANGED sceneVars

NextShader == RunVertexShader

SpecShader == InitShader /\ [][NextShader]_vars

(* ---------------------------------------------------------------------- *)
(* Properties of the frame loop                                            *)
(* ---------------------------------------------------------------------- *)
\* the last frame rendered, its target progress and the direction of it
Last == log[1]
LastTarget == TargetProgress(Last.treeState)
LastDir == IF LastTarget = PScale THEN 1 ELSE -1
Sign(a) == IF a > 0 THEN 1 ELSE IF a < 0 THEN -1 ELSE 0

\* a distance (1.0) beyond which one lerp step outweighs the idle bob
FarEnough == LScale
\* tolerance for comparing two progress values that should be equal (0.01)
ProgressTol == PScale \div 100

\* the rigid elements of the scene, before and after the last frame
RigidBefore ==
  [star |-> <<Last.star>>, gift |-> Last.giftData, bauble |-> Last.baubleData,
   gold |-> Last.ornamentData["gold"], red |-> Last.ornamentData["red"],
   diamond |-> Last.ornamentData["diamond"]]
RigidNow ==
  [star |-> <<star>>, gift |-> giftData, bauble |-> baubleData,
   gold |-> ornamentData["gold"], red |-> ornamentData["red"],
   diamond |-> ornamentData["diamond"]]
RigidFamilies == {"star", "gift", "bauble", "gold", "red", "diamond"}
ClampedFamilies == RigidFamilies \ {"star"}
LagTarget(d, ts) == IF ts = "TREE_SHAPE" THEN d.treePos ELSE d.scatterPos

ToggledFrame ==
  /\ Len(log) = 2
  /\ log[1].treeState # log[2].treeState
  /\ log[1].delta > 0

RoundTrip ==
  /\ Len(log) = 2
  /\ log[2].treeState = "TREE_SHAPE" /\ log[1].treeState = "SCATTERED"
  /\ log[1].delta = log[2].delta /\ log[1].delta > 0

\* C4 (as claimed): TREE_SHAPE for a time T and then SCATTERED for the same
\* time T brings the progress back to within epsilon of where it started.
C4_RoundTripReturns ==
  RoundTrip =>
    \A f \in PointFamilies :
      Abs(uProgress[f].value - log[2].uProgress[f].value) <= ProgressTol

\* the state seen from the other endpoint
Mirror(u) == [value |-> PScale - u.value, velocity |-> -u.velocity]

\* C4 (amended): the damping step is symmetric under exchange of the two
\* endpoints: from the mirrored state (1 - progress, - velocity) the same
\* delta toward the opposite target gives the mirrored progress.  A round
\* trip does not in general return to its start.
C4_DampingIsMirrorSymmetric ==
  log # <<>> =>
    \A f \in PointFamilies :
      Damp(Mirror(Last.uProgress[f]), PScale - LastTarget, SmoothTime(f), Last.delta).value
        = PScale - uProgress[f].value

\* C4 witness: a round trip with equal phases that started in the middle of a
\* transition was made and did not come back to its start.
C4_Witness ==
  /\ RoundTrip
  /\ log[2].uProgress["foliage"].value \in 1..(PScale - 1)
  /\ Abs(uProgress["foliage"].value - log[2].uProgress["foliage"].value) > ProgressTol

\* C5 (as claimed): with the target held fixed, two frames with deltas d1 and
\* d2 reach the progress that one frame with delta d1 + d2 reaches.
C5_TwoFramesEqualOne ==
  (Len(log) = 2 /\ log[1].treeState = log[2].treeState) =>
    \A f \in PointFamilies :
      Abs(uProgress[f].value
          - Damp(log[2].uProgress[f], LastTarget, SmoothTime(f),
                 log[1].delta + log[2].delta).value) <= ProgressTol

\* the fields of an element that a frame has no business writing
StaticFields(d) == [x \in DOMAIN d \ {"currentPos", "rotation", "position"} |-> d[x]]

\* one step keeps the static fields of every element and the number of
\* elements (the star's scale pulses with the clock and is left out)
C6_StaticFieldsKept ==
  /\ StaticFields([star EXCEPT !.scale = 0]) = StaticFields([star' EXCEPT !.scale = 0])
  /\ \A i \in 1..Len(giftData) : StaticFields(giftData[i]) = StaticFields(giftData'[i])
  /\ \A i \in 1..Len(baubleData) : StaticFields(baubleData[i]) = StaticFields(baubleData'[i])
  /\ \A g \in OrnamentGroups : \A i \in 1..Len(ornamentData[g]) :
       StaticFields(ornamentData[g][i]) = StaticFields(ornamentData'[g][i])
  /\ Len(giftData') = Len(giftData) /\ Len(baubleData') = Len(baubleData)
  /\ \A g \in OrnamentGroups : Len(ornamentData'[g]) = Len(ornamentData[g])

\* C6: no step changes an element's scatterPos, treePos, scale, colour or
\* rotationSpeed: a frame writes only currentPos and the rotation.
C6_FrameWritesOnlyCurrentPos == [][C6_StaticFieldsKept]_vars

\* C6 witness: frames in both states have moved the gift boxes and the
\* ornaments away from scatterPos and turned them.
C6_Witness ==
  /\ Len(log) = 2 /\ log[1].treeState # log[2].treeState
  /\ \A i \in 1..Len(giftData) :
       /\ giftData[i].currentPos # giftData[i].scatterPos
       /\ giftData[i].rotation # Last.giftData[i].rotation
  /\ ornamentData["red"][1].currentPos # ornamentData["red"][1].scatterPos

\* C10 (as claimed): a frame with delta = 0 leaves the currentPos of every
\* rigid instance unchanged, in either state.
C10_ZeroDeltaKeepsPositions ==
  (log # <<>> /\ Last.delta = 0) =>
    \A fam \in RigidFamilies : \A i \in 1..Len(RigidNow[fam]) :
      RigidNow[fam][i].currentPos = RigidBefore[fam][i].currentPos

(* ---------------------------------------------------------------------- *)
(* Properties of the gift-box placement                                    *)
(* ---------------------------------------------------------------------- *)
\* an item that carries a mark saying the fallback placed it
Flagged(item) == "fallback" \in DOMAIN item /\ item.fallback

\* C7 (as claimed): two placed scatter points are at least minDistance apart
\* unless one of them was placed by the fallback and is flagged as such; the
\* retry loop accepts a candidate only if it is minDistance from every point
\* placed before.
C7_SeparatedOrFlagged ==
  /\ \A i, j \in 1..Len(build.items) :
       i < j => \/ ~DistanceLess(build.items[i].scatterPos, build.items[j].scatterPos,
                                 MinDistance)
                \/ Flagged(build.items[i]) \/ Flagged(build.items[j])
  /\ build.validPosition => ValidPosition(build.sPos, build.items)

\* C8 (as claimed): the draws of scatter points for a batch of count boxes
\* number at most count * maxAttempts.
C8_CallsWithinCountTimesMaxAttempts ==
  build.samplerCalls <= build.count * MaxAttempts

\* C8 (amended): the build always returns, and it draws at most
\* count * (maxAttempts + 1) scatter points: up to maxAttempts candidates and
\* one fallback point for each box.
C8_BuildReturnsWithinBound ==
  /\ <>(build.pc = "done")
  /\ [](build.samplerCalls <= build.count * (MaxAttempts + 1))

\* C8 witness: a batch in which every candidate after the first box was
\* rejected has been built, with more than count * maxAttempts draws.
C8_Witness ==
  /\ build.pc = "done"
  /\ build.count > MaxAttempts
  /\ Cardinality(build.fallbacks) = build.count - 1
  /\ build.samplerCalls > build.count * MaxAttempts

(* ---------------------------------------------------------------------- *)
(* Properties of the vertex shaders                                        *)
(* ---------------------------------------------------------------------- *)
\* C9 (as claimed): at progress = 1 the position a point-cloud vertex is
\* given equals its aTreePos, for every time and every aRandom.
C9_SettledAtTreePos ==
  (vertex.pc = "out" /\ vertex.uProgress = PScale) => vertex.pos = vertex.aTreePos

\* the breathing amplitude 0.03 of the foliage
BreathMax == 30

\* C9 (amended): at progress = 1 a garland vertex is exactly at aTreePos, as
\* its sway is scaled by (1 - progress) and dropped from progress 0.95 on; a
\* foliage vertex has lost its sway (from progress 0.9 on) but keeps the
\* breathing displacement along normalize(pos), so it is within 0.03 of
\* aTreePos.
C9_SettledWithinBreath ==
  (vertex.pc = "out" /\ vertex.uProgress = PScale) =>
    IF vertex.family = "garland"
    THEN vertex.pos = vertex.aTreePos
    ELSE /\ \A k \in 1..3 : Abs(vertex.pos[k] - vertex.aTreePos[k]) <= BreathMax
         /\ vertex.pos = Breathe(vertex.aTreePos, PScale, vertex.uTime, vertex.aRandom)

\* C9 witness: a foliage vertex at progress = 1 came out displaced from its
\* aTreePos.
C9_Witness ==
  /\ vertex.pc = "out" /\ vertex.uProgress = PScale
  /\ vertex.family = "foliage"
  /\ vertex.pos # vertex.aTreePos

(* ---------------------------------------------------------------------- *)
(* Properties of the lag path                                              *)
(* ---------------------------------------------------------------------- *)
\* the lag factor the last frame used for a rigid family
LagFactor(fam, delta) ==
  IF fam = "star" THEN StarLerpFactor(delta)
  ELSE IF fam = "gift" THEN GiftLerpFactor(delta)
  ELSE IF fam = "bauble" THEN BaubleLerpFactor(delta)
  ELSE OrnamentLerpFactor(Weight(fam), delta)

\* c lies between a and b, up to a tolerance
Between(a, c, b, tol) ==
  (a <= b /\ a - tol <= c /\ c <= b + tol) \/ (b <= a /\ b - tol <= c /\ c <= a + tol)

\* a delta (1 s) after which every clamped lag factor is 1
LandingDelta == MScale

\* C16 (as claimed): for every rigid element, the star included, the lag
\* factor of a frame is in [0,1], the new currentPos lies between the old
\* currentPos and the target (up to the idle bob), and a frame with a very
\* large delta toward TREE_SHAPE lands on treePos.
C16_LagStepNeverOvershoots ==
  log # <<>> =>
    \A fam \in RigidFamilies :
      /\ LagFactor(fam, Last.delta).num \in 0..LagFactor(fam, Last.delta).den
      /\ \A i \in 1..Len(RigidNow[fam]) : \A k \in 1..3 :
           LET tgt == LagTarget(RigidBefore[fam][i], Last.treeState)[k]
               old == RigidBefore[fam][i].currentPos[k]
               new == RigidNow[fam][i].currentPos[k]
           IN  /\ Between(old, new, tgt, BobMax)
               /\ (Last.delta >= LandingDelta /\ Last.treeState = "TREE_SHAPE") => new = tgt

\* C17 (as claimed): a frame toward TREE_SHAPE changes the currentPos of a
\* rigid instance by the lag lerp only and leaves its rotation unchanged.
C17_AssembledFrameOnlyLerps ==
  (log # <<>> /\ Last.treeState = "TREE_SHAPE") =>
    \A fam \in ClampedFamilies : \A i \in 1..Len(RigidNow[fam]) :
      /\ RigidNow[fam][i].currentPos =
           VLerp(RigidBefore[fam][i].currentPos, RigidBefore[fam][i].treePos,
                 LagFactor(fam, Last.delta))
      /\ RigidNow[fam][i].rotation = RigidBefore[fam][i].rotation

\* the rotation a frame toward TREE_SHAPE gives an instance: tiny baubles do
\* not turn, gift boxes turn about y by rotationSpeed * 0.1, ornaments turn
\* about x and y by rotationSpeed
TreeSpin(fam, d) ==
  IF fam = "bauble" THEN d.rotation
  ELSE IF fam = "gift"
  THEN <<d.rotation[1], d.rotation[2] + RDiv(d.rotationSpeed, 10), d.rotation[3]>>
  ELSE <<d.rotation[1] + d.rotationSpeed, d.rotation[2] + d.rotationSpeed, d.rotation[3]>>

\* C17 (amended): a frame toward TREE_SHAPE adds no idle perturbation to the
\* position: currentPos changes by the lag lerp toward treePos only, and an
\* instance that has reached treePos stays there.  The rotation keeps
\* advancing: a gift box turns about y by rotationSpeed * 0.1 and an ornament
\* about x and y by rotationSpeed on every frame; a tiny bauble does not turn.
C17_AssembledFrameLerpsAndSpins ==
  (log # <<>> /\ Last.treeState = "TREE_SHAPE") =>
    \A fam \in ClampedFamilies : \A i \in 1..Len(RigidNow[fam]) :
      LET old == RigidBefore[fam][i]
          new == RigidNow[fam][i]
      IN  /\ new.currentPos = VLerp(old.currentPos, old.treePos, LagFactor(fam, Last.delta))
          /\ old.currentPos = old.treePos => new.currentPos = old.treePos
          /\ new.rotation = TreeSpin(fam, old)

\* C17 witness: a frame toward TREE_SHAPE found a gift box and an ornament
\* at their treePos, left them there and turned them.
C17_Witness ==
  /\ log # <<>> /\ Last.treeState = "TREE_SHAPE"
  /\ Last.giftData[1].currentPos = Last.giftData[1].treePos
  /\ giftData[1].currentPos = giftData[1].treePos
  /\ giftData[1].rotation # Last.giftData[1].rotation
  /\ Last.ornamentData["gold"][1].currentPos = Last.ornamentData["gold"][1].treePos
  /\ ornamentData["gold"][1].rotation # Last.ornamentData["gold"][1].rotation

(* ---------------------------------------------------------------------- *)
(* Properties of a family mounted with given props                         *)
(* ---------------------------------------------------------------------- *)
\* C11 (as claimed): a family mounted with a negative count or a negative
\* radius fails with an error when it is built; it never ends up built.
C11_InvalidConfigFailsFast ==
  (family.pc \notin {"idle", "props"} /\ (family.count < 0 \/ family.radius < 0)) =>
    family.pc = "error"

\* C20: for weight 0 and every weight in the documented range the divisor of
\* the lag formula is positive and the lag factor of every frame is a number
\* in [0,1].
C20_LagDivisorPositive ==
  (family.pc \notin {"idle", "props", "error"} /\ family.kind = "ornament"
     /\ family.frames > 0) =>
    /\ family.pc = "built"
    /\ family.divisor > 0
    /\ family.lerpFactor.den > 0
    /\ family.lerpFactor.num \in 0..family.lerpFactor.den

\* C20 witness: an ornament family with weight 0 ran a frame with delta > 0
\* toward TREE_SHAPE and its element moved off scatterPos.
C20_Witness ==
  /\ family.pc = "built" /\ family.kind = "ornament"
  /\ family.weight = 0 /\ family.frames > 0 /\ family.delta > 0
  /\ Len(family.data) > 0
  /\ family.data[1].currentPos # family.data[1].scatterPos
  /\ family.lerpFactor.num > 0

\* C12: a gift-box family built with count 0 is built without error and has
\* no elements, and frames in either state leave it so.
C12_EmptyFamilyStaysEmpty ==
  (build.pc \in {"loop", "done"} /\ build.count = 0) =>
    /\ build.items = <<>> /\ build.samplerCalls = 0
    /\ build.pc = "done" => giftData = <<>>

\* C12 witness: a family built with count 0 has been run for frames in both
\* states.
C12_Witness ==
  /\ build.pc = "done" /\ build.count = 0
  /\ frames = MaxBuiltFrames /\ treeState = "TREE_SHAPE"
  /\ uTime > 0

(* ---------------------------------------------------------------------- *)
(* Properties of the instance matrices                                     *)
(* ---------------------------------------------------------------------- *)
\* the matrix composed from an element's own position, rotation and scale
OwnTransform(d) ==
  Matrix([position |-> d.currentPos, rotation |-> d.rotation, scale |-> d.scale])

\* C13 (as claimed): the matrix a frame callback sets for an element is
\* composed from that element's own currentPos, rotation and scale, whatever
\* ran before it wrote to the shared tempObject.
C13_MatrixFromOwnState ==
  (sink.pc = "frames" /\ sink.last # "none") =>
    \A i \in 1..Len(DataOf(sink.last)) :
      sink.matrices[sink.last][i] = OwnTransform(DataOf(sink.last)[i])

(* ---------------------------------------------------------------------- *)
(* Properties of the blend                                                 *)
(* ---------------------------------------------------------------------- *)
\* the value 0.5 of the progress
HalfWay == PScale \div 2

\* C14: easeInOutCubic maps 0 to 0, 0.5 to 0.5 and 1 to 1, is non-decreasing
\* on [0,1], also across the branch switch at 0.5, and stays in [0,1].
C14_EaseMonotonic ==
  blend.pc = "out" =>
    /\ blend.tP \in 0..PScale
    /\ blend.p = 0 => blend.tP = 0
    /\ blend.p = HalfWay => blend.tP = HalfWay
    /\ blend.p = PScale => blend.tP = PScale
    /\ blend.p <= blend.q => blend.tP <= blend.tQ

\* C14 witness: the function was evaluated on both sides of the branch
\* switch, just below 0.5 and at 0.5, and rose.
C14_Witness ==
  /\ blend.pc = "out"
  /\ blend.p < HalfWay /\ blend.p > HalfWay - 10 /\ blend.q = HalfWay
  /\ blend.tP < blend.tQ /\ blend.tP > 0

\* C18: for every phase, delayedT is 0 at progress 0 (the blend position is
\* aScatterPos) and 1 at progress 1 (the blend position is aTreePos), for the
\* foliage and for the garland; it is in [0,1] and non-decreasing in progress.
C18_BlendEndpoints ==
  blend.pc = "out" =>
    /\ blend.dP1 \in 0..PScale
    /\ blend.p = 0 => (blend.dP1 = 0 /\ blend.pos = blend.aScatterPos)
    /\ blend.p = PScale => (blend.dP1 = PScale /\ blend.pos = blend.aTreePos)
    /\ blend.p <= blend.q => blend.dP1 <= blend.dQ1

\* C18 witness: a foliage vertex with the highest phase reached aTreePos at
\* progress 1, having been strictly between the endpoints before.
C18_Witness ==
  /\ blend.pc = "out" /\ blend.family = "foliage"
  /\ blend.r1 = 999 /\ blend.q = PScale /\ blend.dQ1 = PScale
  /\ blend.p < PScale /\ blend.dP1 \in 1..(PScale - 1)
  /\ blend.pos \notin {blend.aScatterPos, blend.aTreePos}

\* C19: at any progress the vertex with the higher phase never has the larger
\* delayedT: it leaves aScatterPos no earlier and reaches aTreePos no earlier.
C19_HigherPhaseLater ==
  (blend.pc = "out" /\ blend.r1 <= blend.r2) =>
    /\ blend.dP2 <= blend.dP1
    /\ blend.dP1 = 0 => blend.dP2 = 0
    /\ blend.dP2 = PScale => blend.dP1 = PScale

\* C19 witness: of two garland vertices at the same progress the one with
\* the lower phase was on its way while the one with the higher phase had not
\* left aScatterPos.
C19_Witness ==
  /\ blend.pc = "out" /\ blend.family = "garland"
  /\ blend.r1 < blend.r2
  /\ blend.dP1 > 0 /\ blend.dP2 = 0

(* ---------------------------------------------------------------------- *)
(* Properties of the foliage target sampler                                *)
(* ---------------------------------------------------------------------- *)
\* C15 (as claimed): with exponent 6 at least 95% of the uniform draws give a
\* y in the bottom half of [yOffset - height/2, yOffset + height/2].
C15_BottomHalfGets95Percent ==
  sample.pc = "done" => sample.inBottomHalf * 100 >= 95 * Draws

\* C15 (amended): with exponent 6 at least 89% of the uniform draws give a y
\* in the bottom half of the range (those with r^6 <= 0.5), and every y is in
\* the range.
C15_BottomHalfGets89Percent ==
  /\ sample.pc = "done" => sample.inBottomHalf * 100 >= 89 * Draws
  /\ sample.k > 0 =>
       /\ sample.y >= FoliageYOffset - FoliageHeight \div 2
       /\ sample.y <= FoliageYOffset + FoliageHeight \div 2

\* C15 witness: every draw has been used, and more than 5% of them landed in
\* the top half.
C15_Witness ==
  /\ sample.pc = "done" /\ sample.k = Draws
  /\ (Draws - sample.inBottomHalf) * 100 > 5 * Draws
  /\ sample.y > FoliageYOffset

(* ---------------------------------------------------------------------- *)
(* Weight, initial state and convergence of the lag path                   *)
(* ---------------------------------------------------------------------- *)
\* factor a is at least factor b
FactorAtLeast(a, b) == a.num * b.den >= b.num * a.den

\* the part of the way from scatterPos to treePos that coordinate k of d has
\* still to go is at most that of e, up to tol: |dc - dt| / |ds - dt| against
\* |ec - et| / |es - et|, cross-multiplied
NoFurther(d, e, k, tol) ==
  Abs(d.currentPos[k] - d.treePos[k]) * Abs(e.scatterPos[k] - e.treePos[k])
    <= Abs(e.currentPos[k] - e.treePos[k]) * Abs(d.scatterPos[k] - d.treePos[k]) + tol

\* one grid step on either side, cross-multiplied
RoundingOf(d, e, k) ==
  Abs(d.scatterPos[k] - d.treePos[k]) + Abs(e.scatterPos[k] - e.treePos[k])

\* C21: in a frame the lag factor of a lighter ornament group is at least
\* that of a heavier one and at least that of the gift boxes; so when a frame
\* toward TREE_SHAPE finds an ornament no further from its treePos than a
\* gift box, as a fraction of the way from scatterPos, it leaves it no
\* further.
C21_HeavierLags ==
  log # <<>> =>
    /\ \A g1, g2 \in OrnamentGroups :
         Weight(g1) < Weight(g2) =>
           FactorAtLeast(OrnamentLerpFactor(Weight(g1), Last.delta),
                         OrnamentLerpFactor(Weight(g2), Last.delta))
    /\ \A g \in OrnamentGroups :
         FactorAtLeast(OrnamentLerpFactor(Weight(g), Last.delta), GiftLerpFactor(Last.delta))
    /\ Last.treeState = "TREE_SHAPE" =>
         \A g \in OrnamentGroups : \A i \in 1..Len(giftData) : \A k \in 1..3 :
           NoFurther(Last.ornamentData[g][1], Last.giftData[i], k, 0) =>
             NoFurther(ornamentData[g][1], giftData[i], k,
                       RoundingOf(ornamentData[g][1], giftData[i], k))

\* C21 witness: two frames toward TREE_SHAPE from the built state have left
\* the light gold ornament nearer its treePos than the heavier red one, and
\* that one nearer than the gift box, none of them there yet.
C21_Witness ==
  /\ Len(log) = 2
  /\ log[1].treeState = "TREE_SHAPE" /\ log[2].treeState = "TREE_SHAPE"
  /\ log[2].giftData[1].currentPos = giftData[1].scatterPos
  /\ log[2].ornamentData["red"][1].currentPos = ornamentData["red"][1].scatterPos
  /\ giftData[1].currentPos[1] # giftData[1].treePos[1]
  /\ ornamentData["gold"][1].currentPos[1] # ornamentData["gold"][1].treePos[1]
  /\ Abs(ornamentData["gold"][1].currentPos[1] - ornamentData["gold"][1].treePos[1])
       < Abs(ornamentData["red"][1].currentPos[1] - ornamentData["red"][1].treePos[1])
  /\ ~NoFurther(giftData[1], ornamentData["red"][1], 1,
                RoundingOf(giftData[1], ornamentData["red"][1], 1))

\* C22: before any frame every rigid element's currentPos equals its
\* scatterPos and the progress of foliage and garland is 0; currentPos is a
\* copy, so the frames that move it leave scatterPos as built.
C22_BuiltAtScatterPos ==
  /\ frames = 0 =>
       /\ \A fam \in RigidFamilies : \A i \in 1..Len(RigidNow[fam]) :
            RigidNow[fam][i].currentPos = RigidNow[fam][i].scatterPos
       /\ \A f \in PointFamilies : uProgress[f].value = 0
  /\ log # <<>> =>
       \A fam \in RigidFamilies : \A i \in 1..Len(RigidNow[fam]) :
         RigidNow[fam][i].scatterPos = RigidBefore[fam][i].scatterPos

\* C22 witness: the first frame found every element at its scatterPos and
\* moved the gift boxes and the ornaments away from it.
C22_Witness ==
  /\ Len(log) = 1 /\ frames = 1
  /\ \A fam \in RigidFamilies : \A i \in 1..Len(RigidBefore[fam]) :
       RigidBefore[fam][i].currentPos = RigidBefore[fam][i].scatterPos
  /\ giftData[1].currentPos # giftData[1].scatterPos
  /\ ornamentData["gold"][1].currentPos # ornamentData["gold"][1].scatterPos

\* C23 (as claimed): in a frame with delta > 0 toward TREE_SHAPE no rigid
\* element, the star included, gets further from its treePos.
C23_DistanceNeverGrows ==
  (log # <<>> /\ Last.treeState = "TREE_SHAPE" /\ Last.delta > 0) =>
    \A fam \in RigidFamilies : \A i \in 1..Len(RigidNow[fam]) : \A k \in 1..3 :
      Abs(RigidNow[fam][i].currentPos[k] - RigidNow[fam][i].treePos[k])
        <= Abs(RigidBefore[fam][i].currentPos[k] - RigidBefore[fam][i].treePos[k])

(* ---------------------------------------------------------------------- *)
(* The meshes of one gift box                                              *)
(* ---------------------------------------------------------------------- *)
\* C24 (as claimed): when all callbacks of a frame have run, the horizontal
\* ribbon of every gift box has the matrix the box was given in that frame.
C24_RibbonFollowsBox ==
  (sink.pc = "frames" /\ sink.queue = <<>> /\ frames > 0) =>
    \A i \in 1..Len(giftData) :
      sink.matrices["ribbonH"][i] = sink.matrices["gift"][i]

(* ---------------------------------------------------------------------- *)
(* Colours of the gift boxes                                               *)
(* ---------------------------------------------------------------------- *)
\* the selection weights of the first k palette entries, added up
RECURSIVE CumulativeWeight(_)
CumulativeWeight(k) == IF k = 0 THEN 0 ELSE CumulativeWeight(k - 1) + BoxPalette[k].weight

\* C25: the weights of the palette add up to 1; the colour of every gift box
\* is that of the first palette entry whose cumulative weight is at least the
\* draw r its pickColor made, such an entry existing for every draw; and its
\* ribbon colour differs from its box colour.
C25_FirstCoveringEntry ==
  /\ CumulativeWeight(Len(BoxPalette)) = MScale
  /\ Len(build.draws) = Len(build.items)
  /\ \A i \in 1..Len(build.items) :
       /\ \E k \in 1..Len(BoxPalette) :
            /\ CumulativeWeight(k) >= build.draws[i]
            /\ \A j \in 1..(k - 1) : CumulativeWeight(j) < build.draws[i]
            /\ build.items[i].color = BoxPalette[k].color
       /\ build.items[i].ribbonColor # build.items[i].color

\* C25 witness: a built batch whose box drew r above 0.94 and is gold with
\* a burgundy ribbon.
C25_Witness ==
  /\ build.pc = "done" /\ Len(giftData) = 1
  /\ build.draws[1] > 940
  /\ giftData[1].color = "#d4af37" /\ giftData[1].ribbonColor = "#7a1f1f"

==========================================================================
